---- MODULE Spec2Model ----
(***************************************************************************)
(* Juju GUI server authentication (server/guiserver/auth.py): the User,    *)
(* the two authentication backends, the AuthMiddleware and the             *)
(* AuthenticationTokenHandler, as one state machine.                       *)
(*                                                                         *)
(* A decoded WebSocket message (a Python dict) is a function from field    *)
(* names to values; a missing key is a name outside the DOMAIN.  Python's  *)
(* None is the empty tuple <<>> and a present value v is <<v>>, so that    *)
(* dict.get(key) and "x is not None" are modelled as the code computes     *)
(* them.                                                                   *)
(***************************************************************************)
EXTENDS Integers, Sequences, FiniteSets, TLC

VARIABLES
    backend,      \* AuthMiddleware._backend of every connection
    user,         \* the User of every connection
    request_id,   \* AuthMiddleware._request_id of every connection
    tokens,       \* AuthenticationTokenHandler._data
    timeouts,     \* the handles scheduled on the IOLoop (add_timeout)
    uuids,        \* the values uuid.uuid4() has returned so far
    last,         \* the most recent call: operation, arguments and outcome
    login,        \* history: the unanswered login request of a connection
    accepted,     \* history: the credentials last accepted upstream
    events,       \* history: what has happened to every token
    issued        \* history: the credentials a stored token was created for

vars == <<backend, user, request_id, tokens, timeouts, uuids, last,
          login, accepted, events, issued>>

-----------------------------------------------------------------------------
(* Bounds of the model.                                                    *)

\* Request identifiers are 0 .. MaxRequestId.
MaxRequestId == 1

\* uuid.uuid4() yields the tokens 1 .. MaxTokens; token 0 is never issued.
MaxTokens == 2

Conns == {"c1", "c2"}

Dialects == {"go", "python"}

RequestIds == 0 .. MaxRequestId

IssuableTokens == 1 .. MaxTokens

TokenStrings == 0 .. MaxTokens

\* The username/password pairs clients submit.
Credentials == {<<"user-admin", "secret">>, <<"user-bob", "hunter2">>}

-----------------------------------------------------------------------------
(* Python values.                                                          *)

None == <<>>

Some(v) == <<v>>

EmptyDict == [k \in {} |-> k]

\* key in data
Has(data, key) == key \in DOMAIN data

\* data.get(key)
Get(data, key) == IF Has(data, key) THEN Some(data[key]) ELSE None

\* data.get(key, {})
GetDict(data, key) == IF Has(data, key) THEN data[key] ELSE EmptyDict

\* Truth value of data.get(key) for a key holding True or False.
Truthy(data, key) == Has(data, key) /\ data[key] = TRUE

\* A JSON null and a JSON array held by a field of a message; every other
\* value a field holds is a string, a number, a boolean or a dict.
Null == [json |-> "null"]

List(items) == [json |-> "list", items |-> items]

IsList(value) == Has(value, "json") /\ value.json = "list"

IsDict(value) == ~Has(value, "json")

\* key in container: a key of a dict, an element of a list.
Contains(container, key) ==
    IF IsList(container)
    THEN \E i \in DOMAIN container.items : container.items[i] = key
    ELSE Has(container, key)

\* key in container raises TypeError: None is not iterable.
NotIterable(container) == container = Null

\* An optional field: absent, or present with one of the values.
Field(key, values) == {EmptyDict} \cup {key :> v : v \in values}

-----------------------------------------------------------------------------
(* User                                                                    *)

User(username, password, is_authenticated) ==
    [username |-> username, password |-> password,
     is_authenticated |-> is_authenticated]

-----------------------------------------------------------------------------
(* GoBackend                                                               *)

Go_get_request_id(data) == Get(data, "RequestId")

Go_request_is_login(data) ==
    LET params == GetDict(data, "Params")
    IN  /\ Get(data, "Type") = Some("Admin")
        /\ Get(data, "Request") = Some("Login")
        /\ Contains(params, "AuthTag")
        /\ Contains(params, "Password")

\* request_is_login raises TypeError instead of returning: the two tests of
\* params run, after the tests of Type and Request passed, on a None.
Go_request_is_login_raises(data) ==
    LET params == GetDict(data, "Params")
    IN  /\ Get(data, "Type") = Some("Admin")
        /\ Get(data, "Request") = Some("Login")
        /\ NotIterable(params)

Go_get_credentials(data) ==
    LET params == data["Params"]
    IN  <<params["AuthTag"], params["Password"]>>

Go_login_succeeded(data) == ~Has(data, "Error")

(* PythonBackend                                                           *)

Python_get_request_id(data) == Get(data, "request_id")

Python_request_is_login(data) ==
    LET op == Get(data, "op")
    IN  op = Some("login") /\ Has(data, "user") /\ Has(data, "password")

\* get_credentials returning the pair in the wrong order.
Python_get_credentials_swapped(data) == <<data["password"], data["user"]>>

Python_get_credentials(data) == <<data["user"], data["password"]>>

Python_login_succeeded(data) == Truthy(data, "result") /\ ~Truthy(data, "err")

(* Dispatch on the backend object held by the middleware.                   *)

get_request_id(b, data) ==
    IF b = "go" THEN Go_get_request_id(data) ELSE Python_get_request_id(data)

request_is_login(b, data) ==
    IF b = "go" THEN Go_request_is_login(data)
    ELSE Python_request_is_login(data)

get_credentials(b, data) ==
    IF b = "go" THEN Go_get_credentials(data)
    ELSE Python_get_credentials(data)

login_succeeded(b, data) ==
    IF b = "go" THEN Go_login_succeeded(data)
    ELSE Python_login_succeeded(data)

-----------------------------------------------------------------------------
(* The messages the proxy delivers.                                        *)

GoCredentialParams ==
    {("AuthTag" :> c[1]) @@ ("Password" :> c[2]) : c \in Credentials}

\* Client messages of the Go dialect: logins, logins lacking a field,
\* another Admin request, and the two requests of the token protocol.
GoClientShapes ==
    {("Type" :> "Admin") @@ ("Request" :> "Login") @@ ("Params" :> p) :
        p \in GoCredentialParams \cup {"AuthTag" :> "user-admin"}}
    \cup {("Type" :> "Admin") @@ ("Request" :> "Login")}
    \cup {("Type" :> "Client") @@ ("Request" :> "Login") @@ ("Params" :> p) :
        p \in {("AuthTag" :> "user-admin") @@ ("Password" :> "secret")}}
    \cup {("Type" :> "GUIToken") @@ ("Request" :> "Create")
          @@ ("Params" :> EmptyDict)}
    \cup {("Type" :> "GUIToken") @@ ("Request" :> "Login")
          @@ ("Params" :> ("Token" :> t)) : t \in TokenStrings}

GoClientMessages ==
    {id @@ shape : id \in Field("RequestId", RequestIds),
                   shape \in GoClientShapes}

\* Server messages of the Go dialect: a success and a failure response.
GoServerShapes ==
    {"Response" :> EmptyDict,
     ("Error" :> "invalid entity name or password")
        @@ ("ErrorCode" :> "unauthorized access")
        @@ ("Response" :> EmptyDict)}

GoServerMessages ==
    {id @@ shape : id \in Field("RequestId", RequestIds),
                   shape \in GoServerShapes}

PythonClientShapes ==
    {("op" :> "login") @@ ("user" :> c[1]) @@ ("password" :> c[2]) :
        c \in Credentials}
    \cup {("op" :> "login") @@ ("user" :> "user-admin"),
          ("op" :> "status") @@ ("user" :> "user-admin")
             @@ ("password" :> "secret")}

PythonClientMessages ==
    {id @@ shape : id \in Field("request_id", RequestIds),
                   shape \in PythonClientShapes}

PythonServerShapes ==
    {("op" :> "login") @@ result @@ err :
        result \in Field("result", BOOLEAN), err \in Field("err", {TRUE})}

PythonServerMessages ==
    {id @@ shape : id \in Field("request_id", RequestIds),
                   shape \in PythonServerShapes}

ClientMessages(b) ==
    IF b = "go" THEN GoClientMessages ELSE PythonClientMessages

ServerMessages(b) ==
    IF b = "go" THEN GoServerMessages ELSE PythonServerMessages

-----------------------------------------------------------------------------
(* AuthMiddleware                                                          *)

\* The state one AuthMiddleware works on: its User and its _request_id.
Auth(u, rid) == [user |-> u, request_id |-> rid]

in_progress(rid) == rid # None

\* process_request recording the request id without staging the credentials.
process_request_unstaged(b, u, rid, data) ==
    LET id == get_request_id(b, data)
    IN  IF id # None /\ request_is_login(b, data)
        THEN Auth(u, id)
        ELSE Auth(u, rid)

\* process_request starting a login for a login-shaped message without id.
process_request_any_id(b, u, rid, data) ==
    LET id == get_request_id(b, data)
    IN  IF request_is_login(b, data)
        THEN LET credentials == get_credentials(b, data)
             IN  Auth(User(credentials[1], credentials[2],
                           u.is_authenticated), id)
        ELSE Auth(u, rid)

\* process_request ignoring a login request while another one is pending.
process_request_first_wins(b, u, rid, data) ==
    LET id == get_request_id(b, data)
    IN  IF id # None /\ request_is_login(b, data) /\ rid = None
        THEN LET credentials == get_credentials(b, data)
             IN  Auth(User(credentials[1], credentials[2],
                           u.is_authenticated), id)
        ELSE Auth(u, rid)

\* process_request: the User and _request_id it leaves.
process_request(b, u, rid, data) ==
    LET id == get_request_id(b, data)
    IN  IF id # None /\ request_is_login(b, data)
        THEN LET credentials == get_credentials(b, data)
             IN  Auth(User(credentials[1], credentials[2],
                           u.is_authenticated), id)
        ELSE Auth(u, rid)

\* process_response with the else of the failure branch bound to the test of
\* the request id: an unrelated response clears the credentials.
process_response_dangling_else(b, u, rid, data) ==
    LET id == get_request_id(b, data)
    IN  IF id = rid
        THEN IF login_succeeded(b, data)
             THEN Auth(User(u.username, u.password, TRUE), None)
             ELSE Auth(u, None)
        ELSE Auth(User("", "", u.is_authenticated), rid)

\* process_response keeping the staged credentials of a rejected login.
process_response_keeps_rejected(b, u, rid, data) ==
    LET id == get_request_id(b, data)
    IN  IF id = rid
        THEN IF login_succeeded(b, data)
             THEN Auth(User(u.username, u.password, TRUE), None)
             ELSE Auth(u, None)
        ELSE Auth(u, rid)

\* process_response giving up the pending login on an unrelated response.
process_response_clears_always(b, u, rid, data) ==
    LET id == get_request_id(b, data)
    IN  IF id = rid
        THEN IF login_succeeded(b, data)
             THEN Auth(User(u.username, u.password, TRUE), None)
             ELSE Auth(User("", "", u.is_authenticated), None)
        ELSE Auth(u, None)

\* process_response logging the User out when a login is rejected.
process_response_logs_out(b, u, rid, data) ==
    LET id == get_request_id(b, data)
    IN  IF id = rid
        THEN IF login_succeeded(b, data)
             THEN Auth(User(u.username, u.password, TRUE), None)
             ELSE Auth(User("", "", FALSE), None)
        ELSE Auth(u, rid)

\* process_response: the User and _request_id it leaves.
process_response(b, u, rid, data) ==
    LET id == get_request_id(b, data)
    IN  IF id = rid
        THEN IF login_succeeded(b, data)
             THEN Auth(User(u.username, u.password, TRUE), None)
             ELSE Auth(User("", "", u.is_authenticated), None)
        ELSE Auth(u, rid)

\* The record of a call: what was called, with what, what it returned or
\* raised, and what it wrote to the connection's write_message.
Call(op, c, data, ret, written) ==
    [op |-> op, conn |-> c, data |-> data, ret |-> ret, raised |-> "",
     written |-> written]

\* The record of a call that raised KeyError on a missing key.
KeyError(op, c, data) ==
    [op |-> op, conn |-> c, data |-> data, ret |-> None,
     raised |-> "KeyError", written |-> <<>>]

\* The record of a call that raised TypeError.
TypeError(op, c, data) ==
    [op |-> op, conn |-> c, data |-> data, ret |-> None,
     raised |-> "TypeError", written |-> <<>>]

\* A message is a login request the upstream server will answer.
IsLoginRequest(b, data) ==
    get_request_id(b, data) # None /\ request_is_login(b, data)

\* Connection c has sent a login request no response has answered yet.
Unanswered(c) == login[c] # None /\ login[c].answer = None

\* A message answers the unanswered login request of connection c.
AnswersLogin(c, data) ==
    /\ Unanswered(c)
    /\ get_request_id(backend[c], data) = Some(login[c].id)

ProcessRequest(c, data) ==
    LET after == process_request(backend[c], user[c], request_id[c], data)
    IN  /\ user' = [user EXCEPT ![c] = after.user]
        /\ request_id' = [request_id EXCEPT ![c] = after.request_id]
        /\ last' = Call("process_request", c, data, None, <<>>)
        /\ UNCHANGED <<backend, tokens, timeouts, uuids, events, issued>>

ProcessResponse(c, data) ==
    LET after == process_response(backend[c], user[c], request_id[c], data)
    IN  /\ user' = [user EXCEPT ![c] = after.user]
        /\ request_id' = [request_id EXCEPT ![c] = after.request_id]
        /\ last' = Call("process_response", c, data, None, <<>>)
        /\ UNCHANGED <<backend, tokens, timeouts, uuids, events, issued>>

\* The id of the unanswered login request of connection c that a login
\* request with another id replaces.
Superseded(c, id) ==
    IF Unanswered(c) /\ login[c].id # id THEN Some(login[c].id) ELSE None

\* History of the login exchange of connection c: a login request replaces
\* the exchange on record, the first response carrying its id answers it,
\* and a success response makes its credentials the accepted ones.
RequestHistory(c, data) ==
    /\ login' = IF IsLoginRequest(backend[c], data)
                THEN LET id == get_request_id(backend[c], data)[1]
                     IN  [login EXCEPT ![c] =
                            [id |-> id,
                             credentials |->
                                 get_credentials(backend[c], data),
                             answer |-> None,
                             superseded |-> Superseded(c, id)]]
                ELSE login
    /\ accepted' = accepted

ResponseHistory(c, data) ==
    /\ login' = IF AnswersLogin(c, data)
                THEN [login EXCEPT ![c].answer = Some(data)] ELSE login
    /\ accepted' = IF AnswersLogin(c, data)
                      /\ login_succeeded(backend[c], data)
                   THEN [accepted EXCEPT ![c] = login[c].credentials]
                   ELSE accepted

-----------------------------------------------------------------------------
(* AuthenticationTokenHandler                                              *)

\* The client messages of the token protocol.
TokenShapes ==
    {("Type" :> "GUIToken") @@ ("Request" :> "Create")
        @@ ("Params" :> EmptyDict)}
    \cup {("Type" :> "GUIToken") @@ ("Request" :> "Login")
          @@ ("Params" :> ("Token" :> t)) : t \in TokenStrings}

TokenMessages ==
    {id @@ shape : id \in Field("RequestId", RequestIds),
                   shape \in TokenShapes}

\* dict.pop(key, None): the dict without the key.
Pop(dict, key) == [k \in DOMAIN dict \ {key} |-> dict[k]]

token_requested(data) ==
    /\ Has(data, "RequestId")
    /\ Get(data, "Type") = Some("GUIToken")
    /\ Get(data, "Request") = Some("Create")

authentication_requested(data) ==
    LET params == GetDict(data, "Params")
    IN  /\ Has(data, "RequestId")
        /\ Get(data, "Type") = Some("GUIToken")
        /\ Get(data, "Request") = Some("Login")
        /\ Has(params, "Token")

\* uuid.uuid4().hex: a value no earlier call has returned.
uuid4 == IssuableTokens \ uuids

\* The handle add_timeout returns for the callback expiring a token.
Handle(token) == token

\* The token a scheduled expire_token callback closes over.
TokenOf(handle) == handle

\* The record process_token_request stores for a token.
TokenRecord(u, handle) ==
    [username |-> u.username, password |-> u.password, handle |-> handle]

\* The message process_token_request writes (Created and Expires, two
\* timestamps of the wall clock, are left out).
TokenResponse(data, token) ==
    ("RequestId" :> data["RequestId"])
        @@ ("Response" :> ("Token" :> token))

\* The error written without the correlation id of the request.
TokenError_unechoed(data) ==
    ("Error" :> "unknown, fulfilled, or expired token")
        @@ ("ErrorCode" :> "unauthorized access")
        @@ ("Response" :> EmptyDict)

\* The message process_authentication_request writes for a missing token.
TokenError(data) ==
    ("RequestId" :> data["RequestId"])
        @@ ("Error" :> "unknown, fulfilled, or expired token")
        @@ ("ErrorCode" :> "unauthorized access")
        @@ ("Response" :> EmptyDict)

\* The stored pair returned in the wrong order.
Redeemed_swapped(credentials) ==
    <<credentials.password, credentials.username>>

\* What process_authentication_request returns for a stored record.
Redeemed(credentials) == <<credentials.username, credentials.password>>

\* The record looked up with get instead of pop: it stays in the mapping.
AfterRedemption_get(data) == tokens

\* The mapping process_authentication_request leaves.
AfterRedemption(data) == Pop(tokens, data["Params"]["Token"])

\* An expire_token that leaves the record in the mapping.
expire_token_keeps(token) == tokens

\* The mapping the expire_token callback of a token leaves.
expire_token(token) == Pop(tokens, token)

\* A redemption that leaves the expiry callback scheduled.
remove_timeout_forgotten(handle) == timeouts

\* The timeouts IOLoop.remove_timeout leaves scheduled.
remove_timeout(handle) == timeouts \ {handle}

\* A process_token_request that blanks the credentials it has stashed.
UserAfterTokenRequest_blanked(u) == User("", "", u.is_authenticated)

\* The User process_token_request leaves: it reads username and password.
UserAfterTokenRequest(u) == u

\* The message process_authentication_response returns.
process_authentication_response(data, u) ==
    ("RequestId" :> data["RequestId"])
        @@ ("Response" :> (("AuthTag" :> u.username)
                           @@ ("Password" :> u.password)))

Record(token, event) == [events EXCEPT ![token] = Append(@, event)]

ProcessTokenRequest(c, data) ==
    \E token \in uuid4 :
        LET handle == Handle(token)
        IN  /\ uuids' = uuids \cup {token}
            /\ timeouts' = timeouts \cup {handle}
            /\ tokens' = (token :> TokenRecord(user[c], handle)) @@ tokens
            /\ last' = IF Has(data, "RequestId")
                       THEN Call("process_token_request", c, data, None,
                                 <<TokenResponse(data, token)>>)
                       ELSE KeyError("process_token_request", c, data)
            /\ events' = Record(token, "created")
            /\ issued' = [issued EXCEPT ![token] =
                            Some(<<user[c].username, user[c].password>>)]
            /\ user' = [user EXCEPT ![c] = UserAfterTokenRequest(user[c])]
            /\ UNCHANGED <<backend, request_id, login, accepted>>

ProcessAuthenticationRequest(c, data) ==
    IF ~(Has(data, "Params") /\ Has(data["Params"], "Token"))
    THEN /\ last' = KeyError("process_authentication_request", c, data)
         /\ UNCHANGED <<backend, user, request_id, tokens, timeouts, uuids,
                        login, accepted, events, issued>>
    ELSE LET token == data["Params"]["Token"]
             credentials == Get(tokens, token)
         IN  /\ tokens' = AfterRedemption(data)
             /\ IF credentials # None
                THEN /\ timeouts' = remove_timeout(credentials[1].handle)
                     /\ last' = Call("process_authentication_request", c,
                                     data, Some(Redeemed(credentials[1])),
                                     <<>>)
                     /\ events' = Record(token, "redeemed")
                     /\ issued' = [issued EXCEPT ![token] = None]
                ELSE /\ timeouts' = timeouts
                     /\ last' = IF Has(data, "RequestId")
                                THEN Call("process_authentication_request",
                                          c, data, None, <<TokenError(data)>>)
                                ELSE KeyError("process_authentication_request",
                                              c, data)
                     /\ events' = events
                     /\ issued' = issued
             /\ UNCHANGED <<backend, user, request_id, uuids, login,
                            accepted>>

ProcessAuthenticationResponse(c, data) ==
    /\ last' = IF Has(data, "RequestId")
               THEN Call("process_authentication_response", c, data,
                         Some(process_authentication_response(data, user[c])),
                         <<>>)
               ELSE KeyError("process_authentication_response", c, data)
    /\ UNCHANGED <<backend, user, request_id, tokens, timeouts, uuids, login,
                   accepted, events, issued>>

\* The IOLoop runs the expire_token callback of a scheduled timeout.
ExpireToken(handle) ==
    LET token == TokenOf(handle)
    IN  /\ handle \in timeouts
        /\ timeouts' = timeouts \ {handle}
        /\ tokens' = expire_token(token)
        /\ last' = Call("expire_token", "ioloop", "Token" :> token, None,
                        <<>>)
        /\ events' = Record(token, IF Has(tokens, token)
                                    THEN "expired" ELSE "fired")
        /\ issued' = [issued EXCEPT ![token] = None]
        /\ UNCHANGED <<backend, user, request_id, uuids, login, accepted>>

-----------------------------------------------------------------------------
(* The system.                                                             *)

NoCall == Call("none", "none", EmptyDict, None, <<>>)

\* Every connection starts with a fresh User, a middleware with no login
\* pending and an empty token handler.
Fresh ==
    /\ user = [c \in Conns |-> User("", "", FALSE)]
    /\ request_id = [c \in Conns |-> None]
    /\ tokens = EmptyDict
    /\ timeouts = {}
    /\ uuids = {}
    /\ last = NoCall
    /\ login = [c \in Conns |-> None]
    /\ accepted = [c \in Conns |-> None]
    /\ events = [t \in TokenStrings |-> <<>>]
    /\ issued = [t \in TokenStrings |-> None]

\* One backend, chosen at bootstrap, serves every connection.
Init == Fresh /\ \E b \in Dialects : backend = [c \in Conns |-> b]

\* The connection whose client and server traffic the proxy delivers to
\* the middleware; every connection talks to the token handler.
Proxied == {"c1"}

\* The middleware sees every client and every server message.
Login ==
    \E c \in Proxied :
        \/ \E data \in ClientMessages(backend[c]) :
              ProcessRequest(c, data) /\ RequestHistory(c, data)
        \/ \E data \in ServerMessages(backend[c]) :
              ProcessResponse(c, data) /\ ResponseHistory(c, data)

\* The login exchanges that change the User, without their history.
LoginRequests(b) == {data \in ClientMessages(b) : IsLoginRequest(b, data)}

LoginResponses(b) ==
    {data \in ServerMessages(b) : get_request_id(b, data) # None}

LoginTraffic ==
    \E c \in Proxied :
        /\ \/ \E data \in LoginRequests(backend[c]) : ProcessRequest(c, data)
           \/ \E data \in LoginResponses(backend[c]) :
                 ProcessResponse(c, data)
        /\ UNCHANGED <<login, accepted>>

\* The token-login request of connection c whose token was just redeemed:
\* the message the proxy makes the success response for.
AnswersTokenLogin(c, data) ==
    /\ last.op = "process_authentication_request"
    /\ last.ret # None
    /\ last.conn = c
    /\ last.data = data

\* The proxy calls the token handler for the messages its two tests accept.
Token ==
    \/ \E c \in Conns : \E data \in TokenMessages :
          token_requested(data) /\ ProcessTokenRequest(c, data)
    \/ \E c \in Conns : \E data \in TokenMessages :
          authentication_requested(data)
              /\ ProcessAuthenticationRequest(c, data)
    \/ \E c \in Conns : \E data \in TokenMessages :
          AnswersTokenLogin(c, data)
              /\ ProcessAuthenticationResponse(c, data)
    \/ \E handle \in timeouts : ExpireToken(handle)

Next == LoginTraffic \/ Token

\* The token protocol is written in the Go dialect's message shapes.
InitGo == Init /\ backend = [c \in Conns |-> "go"]

\* The token handler shared by the connections, and the logins that change
\* the User tokens are created for.
Spec == InitGo /\ [][Next]_vars

\* The middleware of one connection, with every message and its history.
SpecAuth == Init /\ [][Login]_vars

-----------------------------------------------------------------------------
(* Properties of the AuthMiddleware, checked under SpecAuth.               *)

\* The User and _request_id of a connection.
AuthOf(c) == Auth(user[c], request_id[c])

\* C1: a success response carrying the id of the unanswered login request
\* (id r, credentials u and p) leaves the User authenticated with username
\* u and password p and no login pending, in either dialect.
C1_LoginAccepted ==
    [][\A c \in Conns : \A data \in ServerMessages(backend[c]) :
          (/\ AnswersLogin(c, data)
           /\ login_succeeded(backend[c], data)
           /\ ProcessResponse(c, data))
          => /\ user'[c] = User(login[c].credentials[1],
                                login[c].credentials[2], TRUE)
             /\ request_id'[c] = None]_vars

\* C1 witness: the last call was the success response to user-bob's login,
\* and the User is authenticated as user-bob.
C1_Witness ==
    \E c \in Conns :
        /\ last.op = "process_response" /\ last.conn = c
        /\ login[c] # None /\ login[c].answer = Some(last.data)
        /\ login_succeeded(backend[c], last.data)
        /\ login[c].credentials = <<"user-bob", "hunter2">>
        /\ user[c] = User("user-bob", "hunter2", TRUE)
        /\ request_id[c] = None

C3_AuthenticatedHoldsAccepted ==
    \A c \in Conns :
        user[c].is_authenticated
            => /\ accepted[c] # None
               /\ user[c].username = accepted[c][1]
               /\ user[c].password = accepted[c][2]

\* C4 as claimed: a response without a correlation id changes neither the
\* User nor _request_id, whether or not a login is pending.
C4_NullIdIgnored ==
    [][\A c \in Conns : \A data \in ServerMessages(backend[c]) :
          (/\ get_request_id(backend[c], data) = None
           /\ ProcessResponse(c, data))
          => /\ user'[c] = user[c]
             /\ request_id'[c] = request_id[c]]_vars

\* C5: a response whose correlation id is present and differs from
\* _request_id changes neither the User nor _request_id, whether a login is
\* pending or not and whether the response reports success or failure.
C5_MismatchIgnored ==
    [][\A c \in Conns : \A data \in ServerMessages(backend[c]) :
          (/\ get_request_id(backend[c], data) # None
           /\ get_request_id(backend[c], data) # request_id[c]
           /\ ProcessResponse(c, data))
          => /\ user'[c] = user[c]
             /\ request_id'[c] = request_id[c]]_vars

\* C5 witness: the last call was a failure response with an id other than
\* the pending one, and the staged login is still pending.
C5_Witness ==
    \E c \in Conns :
        /\ last.op = "process_response" /\ last.conn = c
        /\ get_request_id(backend[c], last.data) \notin {None, request_id[c]}
        /\ ~login_succeeded(backend[c], last.data)
        /\ Unanswered(c)
        /\ request_id[c] = Some(login[c].id)
        /\ user[c].username = login[c].credentials[1]

\* C10: right after the response that answered a pending login, processing
\* the identical response again leaves the User and _request_id as they are.
C10_DuplicateResponse ==
    \A c \in Conns :
        (/\ last.op = "process_response" /\ last.conn = c
         /\ login[c] # None /\ login[c].answer = Some(last.data))
        => process_response(backend[c], user[c], request_id[c], last.data)
              = AuthOf(c)

\* C10 witness: a success response has just answered the pending login.
C10_Witness ==
    \E c \in Conns :
        /\ last.op = "process_response" /\ last.conn = c
        /\ login[c] # None /\ login[c].answer = Some(last.data)
        /\ user[c].is_authenticated /\ user[c].username # ""
        /\ request_id[c] = None

-----------------------------------------------------------------------------
(* Properties of the AuthenticationTokenHandler, checked under Spec.       *)

\* How often an event is on record.
Count(seq, event) == Cardinality({i \in DOMAIN seq : seq[i] = event})

\* The last call was process_authentication_request for a token-login
\* request naming this token.
RedemptionOf(token) ==
    /\ last.op = "process_authentication_request"
    /\ authentication_requested(last.data)
    /\ last.data["Params"]["Token"] = token

\* The error response of the token protocol for a request's correlation id.
UnknownTokenError(id) ==
    [RequestId |-> id, Error |-> "unknown, fulfilled, or expired token",
     ErrorCode |-> "unauthorized access", Response |-> EmptyDict]

\* The last call returned no credentials and wrote the error response,
\* echoing the correlation id of its request.
Refused ==
    /\ last.ret = None /\ last.raised = ""
    /\ last.written = <<UnknownTokenError(last.data["RequestId"])>>

\* C6: over every interleaving of token creations, redemptions from the
\* connections and expiries, no token is redeemed more than once: a call for
\* a token either is its one successful redemption, or returns no
\* credentials and writes the 'unknown, fulfilled, or expired token' error.
C6_RedeemedAtMostOnce ==
    \A token \in TokenStrings :
        /\ Count(events[token], "redeemed") <= 1
        /\ RedemptionOf(token)
              => IF last.ret # None
                 THEN /\ events[token] = <<"created", "redeemed">>
                      /\ last.written = <<>>
                 ELSE Refused

\* C6 witness: connection c2 asks for a token that was redeemed before and
\* is refused.
C6_Witness ==
    \E token \in IssuableTokens :
        /\ RedemptionOf(token) /\ last.conn = "c2"
        /\ events[token] = <<"created", "redeemed">>
        /\ Refused

\* C7: a successful redemption returns the username and password the User
\* held when process_token_request created the token, whatever happened to
\* the User and to other tokens in between.
C7_RoundTrip ==
    [][(last'.op = "process_authentication_request" /\ last'.ret # None)
          => LET token == last'.data["Params"]["Token"]
             IN  /\ issued[token] # None
                 /\ last'.ret = issued[token]]_vars

\* C7 witness: a token created for user-admin is redeemed after the User of
\* its connection has become user-bob and after another token was created.
C7_Witness ==
    \E token \in IssuableTokens :
        /\ RedemptionOf(token)
        /\ last.ret = Some(<<"user-admin", "secret">>)
        /\ user["c1"].username = "user-bob"
        /\ \E other \in IssuableTokens \ {token} : events[other] # <<>>

\* C8: once the expiry callback of a token has fired, a request to redeem it
\* returns no credentials and writes the error response a never issued token
\* gets.
C8_ExpiredRefused ==
    \A token \in TokenStrings :
        (RedemptionOf(token) /\ Count(events[token], "expired") > 0)
            => Refused

\* C8 witness: a request for an expired token has just been refused.
C8_Witness ==
    \E token \in IssuableTokens :
        /\ RedemptionOf(token)
        /\ events[token] = <<"created", "expired">>
        /\ Refused

\* C9: a token is created, then redeemed or expired, and nothing else
\* happens to it; it is in the mapping exactly from its creation to its
\* redemption or expiry.
C9_Lifecycle ==
    \A token \in TokenStrings :
        /\ events[token] \in {<<>>, <<"created">>, <<"created", "redeemed">>,
                              <<"created", "expired">>}
        /\ Has(tokens, token) <=> events[token] = <<"created">>

\* C9 witness: one token has been redeemed, another has expired.
C9_Witness ==
    \E t1, t2 \in IssuableTokens :
        /\ events[t1] = <<"created", "redeemed">>
        /\ events[t2] = <<"created", "expired">>
        /\ ~Has(tokens, t1) /\ ~Has(tokens, t2)


\* C11 as claimed: process_token_request stores a token record only for a
\* User whose is_authenticated is true.
C11_TokenOnlyForAuthenticated ==
    (last.op = "process_token_request" /\ last.raised = "")
    => user[last.conn].is_authenticated

-----------------------------------------------------------------------------
(* The two dialects side by side, checked under SpecDialects: connection   *)
(* c1 runs a middleware with the GoBackend, c2 one with the PythonBackend, *)
(* and every exchange reaches both, each in the shape of its dialect.      *)

\* What a message means, whatever the dialect: a login request with an id
\* and credentials, a login lacking its password, another request, a
\* success or a failure response.
Exchange(kind, id, credentials) ==
    [kind |-> kind, id |-> id, credentials |-> credentials]

OptionalIds == {None} \cup {Some(i) : i \in RequestIds}

ClientExchanges ==
    {Exchange("login", Some(i), c) : i \in RequestIds, c \in Credentials}
    \cup {Exchange("incomplete", id, c) : id \in OptionalIds,
                                            c \in Credentials}
    \cup {Exchange("request", id, None) : id \in OptionalIds}

ServerExchanges ==
    {Exchange(kind, id, None) :
        kind \in {"success", "failure"}, id \in OptionalIds}

\* The message of the Go dialect (GoBackend's documented shapes).
AsGo(m) ==
    LET id == IF m.id = None THEN EmptyDict ELSE "RequestId" :> m.id[1]
    IN  CASE m.kind = "login" ->
               id @@ ("Type" :> "Admin") @@ ("Request" :> "Login")
                  @@ ("Params" :> (("AuthTag" :> m.credentials[1])
                                   @@ ("Password" :> m.credentials[2])))
          [] m.kind = "incomplete" ->
               id @@ ("Type" :> "Admin") @@ ("Request" :> "Login")
                  @@ ("Params" :> ("AuthTag" :> m.credentials[1]))
          [] m.kind = "request" ->
               id @@ ("Type" :> "Client") @@ ("Request" :> "EnvironmentInfo")
                  @@ ("Params" :> EmptyDict)
          [] m.kind = "success" -> id @@ ("Response" :> EmptyDict)
          [] m.kind = "failure" ->
               id @@ ("Error" :> "invalid entity name or password")
                  @@ ("ErrorCode" :> "unauthorized access")
                  @@ ("Response" :> EmptyDict)

\* The message of the Python dialect (PythonBackend's documented shapes).
AsPython(m) ==
    LET id == IF m.id = None THEN EmptyDict ELSE "request_id" :> m.id[1]
    IN  CASE m.kind = "login" ->
               id @@ ("op" :> "login") @@ ("user" :> m.credentials[1])
                  @@ ("password" :> m.credentials[2])
          [] m.kind = "incomplete" ->
               id @@ ("op" :> "login") @@ ("user" :> m.credentials[1])
          [] m.kind = "request" -> id @@ ("op" :> "status")
          [] m.kind = "success" ->
               id @@ ("op" :> "login") @@ ("result" :> TRUE)
          [] m.kind = "failure" ->
               id @@ ("op" :> "login") @@ ("err" :> TRUE)

\* Both middlewares run the same method on their message of the exchange.
AfterBoth(after1, after2) ==
    /\ user' = [user EXCEPT !["c1"] = after1.user, !["c2"] = after2.user]
    /\ request_id' = [request_id EXCEPT !["c1"] = after1.request_id,
                                        !["c2"] = after2.request_id]
    /\ UNCHANGED <<backend, tokens, timeouts, uuids, login, accepted, events,
                   issued>>

BothProcessRequest(m) ==
    /\ AfterBoth(process_request(backend["c1"], user["c1"],
                                 request_id["c1"], AsGo(m)),
                 process_request(backend["c2"], user["c2"],
                                 request_id["c2"], AsPython(m)))
    /\ last' = Call("process_request", "c1 c2", m, None, <<>>)

BothProcessResponse(m) ==
    /\ AfterBoth(process_response(backend["c1"], user["c1"],
                                  request_id["c1"], AsGo(m)),
                 process_response(backend["c2"], user["c2"],
                                  request_id["c2"], AsPython(m)))
    /\ last' = Call("process_response", "c1 c2", m, None, <<>>)

SideBySide ==
    \/ \E m \in ClientExchanges : BothProcessRequest(m)
    \/ \E m \in ServerExchanges : BothProcessResponse(m)

InitDialects == Fresh /\ backend = [c1 |-> "go", c2 |-> "python"]

SpecDialects == InitDialects /\ [][SideBySide]_vars

\* C12: after every exchange delivered to a Go and to a Python middleware,
\* each in its dialect's shape, the two Users have the same username,
\* password and is_authenticated, and in_progress() is the same for both.
C12_DialectEquivalence ==
    /\ user["c1"] = user["c2"]
    /\ in_progress(request_id["c1"]) = in_progress(request_id["c2"])

\* C12 witness: a success response has just resolved user-bob's login in
\* both dialects.
C12_Witness ==
    /\ backend = [c1 |-> "go", c2 |-> "python"]
    /\ last.op = "process_response" /\ last.data.kind = "success"
    /\ last.data.id # None
    /\ user["c1"] = User("user-bob", "hunter2", TRUE)
    /\ user["c2"] = User("user-bob", "hunter2", TRUE)
    /\ ~in_progress(request_id["c1"]) /\ ~in_progress(request_id["c2"])

-----------------------------------------------------------------------------
(* The backends on their own, checked under SpecBackends: request_is_login *)
(* of either backend on client messages with every field present or        *)
(* missing, and get_backend on the names of API versions.                  *)

\* What the Params of a decoded Go message can hold: a dict with or without
\* the two credential fields, null, or a list.
GoParams ==
    {tag @@ password : tag \in Field("AuthTag", {"user-admin"}),
                       password \in Field("Password", {"secret"})}
    \cup {Null, List(<<"AuthTag", "Password">>)}

GoBackendMessages ==
    {id @@ type @@ request @@ params :
        id \in Field("RequestId", RequestIds),
        type \in Field("Type", {"Admin", "Client"}),
        request \in Field("Request", {"Login", "EnvironmentInfo"}),
        params \in Field("Params", GoParams)}

PythonBackendMessages ==
    {id @@ op @@ name @@ password :
        id \in Field("request_id", RequestIds),
        op \in Field("op", {"login", "status"}),
        name \in Field("user", {"user-admin"}),
        password \in Field("password", {"secret"})}

BackendMessages(b) ==
    IF b = "go" THEN GoBackendMessages ELSE PythonBackendMessages

\* One call of request_is_login on the backend b.
RequestIsLogin(b, data) ==
    /\ last' = IF b = "go" /\ Go_request_is_login_raises(data)
               THEN TypeError("request_is_login", b, data)
               ELSE Call("request_is_login", b, data,
                         Some(request_is_login(b, data)), <<>>)
    /\ UNCHANGED <<backend, user, request_id, tokens, timeouts, uuids, login,
                   accepted, events, issued>>

\* The backend objects of the model are named after their dialect.
GoBackend == "go"

PythonBackend == "python"

backend_class == ("go" :> GoBackend) @@ ("python" :> PythonBackend)

\* get_backend falling back to the Go backend for an unknown name.
get_backend_default(apiversion) ==
    [ret |-> Some(IF Has(backend_class, apiversion)
                  THEN backend_class[apiversion] ELSE GoBackend),
     raised |-> ""]

\* get_backend: the backend it returns, or the KeyError of the lookup.
get_backend(apiversion) ==
    IF Has(backend_class, apiversion)
    THEN [ret |-> Some(backend_class[apiversion]), raised |-> ""]
    ELSE [ret |-> None, raised |-> "KeyError"]

\* The names get_backend is called with.
ApiVersions == {"go", "python", "Go", "juju-core", ""}

GetBackend(apiversion) ==
    LET outcome == get_backend(apiversion)
    IN  /\ last' = [op |-> "get_backend", conn |-> "none",
                    data |-> "apiversion" :> apiversion,
                    ret |-> outcome.ret, raised |-> outcome.raised,
                    written |-> <<>>]
        /\ UNCHANGED <<backend, user, request_id, tokens, timeouts, uuids,
                       login, accepted, events, issued>>

BackendCalls ==
    \/ \E b \in Dialects : \E data \in BackendMessages(b) :
          RequestIsLogin(b, data)
    \/ \E apiversion \in ApiVersions : GetBackend(apiversion)

SpecBackends == Init /\ [][BackendCalls]_vars

\* The fields of an administrative login are all there: the type and
\* operation fields hold the login values, and the identity field and the
\* secret field are present.
HasLoginFields(b, data) ==
    IF b = "go"
    THEN /\ Has(data, "Type") /\ data["Type"] = "Admin"
         /\ Has(data, "Request") /\ data["Request"] = "Login"
         /\ Has(data, "Params") /\ IsDict(data["Params"])
         /\ Has(data["Params"], "AuthTag")
         /\ Has(data["Params"], "Password")
    ELSE /\ Has(data, "op") /\ data["op"] = "login"
         /\ Has(data, "user")
         /\ Has(data, "password")

\* C13 as claimed: request_is_login of either backend returns true only for
\* a message with all the fields of an administrative login, and returns
\* false for every message missing one of them.
C13_LoginOnlyWithFields ==
    (last.op = "request_is_login" /\ ~HasLoginFields(last.conn, last.data))
    => last.raised = "" /\ last.ret = Some(FALSE)

\* The backend object parses login requests: it finds their id and their
\* credentials.
Parses(b, logins) ==
    \A data \in logins :
        /\ get_request_id(b, data) # None
        /\ request_is_login(b, data)
        /\ <<get_credentials(b, data)[1], get_credentials(b, data)[2]>>
              \in Credentials

\* The login requests of the two dialects.
GoLogins ==
    {AsGo(Exchange("login", Some(i), c)) : i \in RequestIds, c \in Credentials}

PythonLogins ==
    {AsPython(Exchange("login", Some(i), c)) :
        i \in RequestIds, c \in Credentials}

\* C14: get_backend returns a backend of the Go dialect for the name go and
\* a backend of the Python dialect for the name python; for every other
\* name it raises an error and returns no backend.
C14_BackendByName ==
    last.op = "get_backend"
    => LET apiversion == last.data["apiversion"]
       IN  /\ apiversion = "go"
              => /\ last.raised = "" /\ last.ret # None
                 /\ Parses(last.ret[1], GoLogins)
           /\ apiversion = "python"
              => /\ last.raised = "" /\ last.ret # None
                 /\ Parses(last.ret[1], PythonLogins)
           /\ apiversion \notin {"go", "python"}
              => last.raised # "" /\ last.ret = None

\* C14 witness: get_backend has just raised for the name of no API version.
C14_Witness ==
    /\ last.op = "get_backend"
    /\ last.data["apiversion"] = "juju-core"
    /\ last.raised = "KeyError" /\ last.ret = None

-----------------------------------------------------------------------------
(* Overlapping logins, the frame of process_request and in_progress,       *)
(* checked under SpecAuth.                                                 *)

\* C15: when login request B (id b) was processed while login request A
\* (id a # b) was unanswered, only b is tracked: a response with id a
\* changes nothing, and a response with id b resolves the login,
\* authenticating the User with B's credentials on success.
C15_Overwrite ==
    [][\A c \in Conns : \A data \in ServerMessages(backend[c]) :
          (/\ Unanswered(c) /\ login[c].superseded # None
           /\ ProcessResponse(c, data))
          => LET id == get_request_id(backend[c], data)
             IN  /\ request_id[c] = Some(login[c].id)
                 /\ id = login[c].superseded
                    => user'[c] = user[c] /\ request_id'[c] = request_id[c]
                 /\ id = Some(login[c].id)
                    => /\ request_id'[c] = None
                       /\ login_succeeded(backend[c], data)
                          => user'[c] = User(login[c].credentials[1],
                                             login[c].credentials[2], TRUE)
      ]_vars

\* C15 witness: user-bob's login replaced an unanswered login with another
\* id, the response to the replaced login has just been ignored, and
\* user-bob's login is still the pending one.
C15_Witness ==
    \E c \in Conns :
        /\ Unanswered(c) /\ login[c].superseded # None
        /\ last.op = "process_response" /\ last.conn = c
        /\ get_request_id(backend[c], last.data) = login[c].superseded
        /\ request_id[c] = Some(login[c].id)
        /\ login[c].credentials = <<"user-bob", "hunter2">>
        /\ user[c] = User("user-bob", "hunter2", FALSE)

\* C16: process_request on a message that lacks a field of a login request,
\* or that is login-shaped without a correlation id, leaves the User and
\* _request_id as they are, whether a login is pending or not.
C16_RequestFrame ==
    [][\A c \in Conns :
          (/\ last'.op = "process_request" /\ last'.conn = c
           /\ ~(/\ HasLoginFields(backend[c], last'.data)
                /\ get_request_id(backend[c], last'.data) # None))
          => /\ user' = user
             /\ request_id' = request_id]_vars

\* C16 witness: with user-bob's login pending, process_request has just
\* handled a login-shaped message without a correlation id.
C16_Witness ==
    \E c \in Conns :
        /\ last.op = "process_request" /\ last.conn = c
        /\ HasLoginFields(backend[c], last.data)
        /\ get_request_id(backend[c], last.data) = None
        /\ get_credentials(backend[c], last.data) = <<"user-admin", "secret">>
        /\ Unanswered(c) /\ request_id[c] = Some(login[c].id)
        /\ user[c] = User("user-bob", "hunter2", FALSE)

\* C17: in_progress() is false initially and true exactly while a login
\* request is unanswered: it becomes true when process_request handles a
\* login request, becomes false when process_response handles a response
\* whose id equals the pending id, and changes at no other call.
C17_InProgress ==
    /\ \A c \in Conns : ~in_progress(request_id[c])
    /\ [][\A c \in Conns :
             LET before == in_progress(request_id[c])
                 after == in_progress(request_id'[c])
                 id == get_request_id(backend[c], last'.data)
                 starts == /\ last'.op = "process_request" /\ last'.conn = c
                           /\ IsLoginRequest(backend[c], last'.data)
                 resolves == /\ last'.op = "process_response"
                             /\ last'.conn = c
                             /\ id = request_id[c]
             IN  /\ before <=> Unanswered(c)
                 /\ starts => after
                 /\ (~before /\ after) => starts
                 /\ (before /\ resolves) => ~after
                 /\ (before /\ ~after) => resolves]_vars

\* C17 witness: a login is pending and in_progress() is still true after a
\* response with another id.
C17_Witness ==
    \E c \in Conns :
        /\ last.op = "process_response" /\ last.conn = c
        /\ get_request_id(backend[c], last.data) # request_id[c]
        /\ get_request_id(backend[c], last.data) # None
        /\ Unanswered(c)
        /\ in_progress(request_id[c])

-----------------------------------------------------------------------------
(* Outcomes, timers and frame of the AuthenticationTokenHandler, checked   *)
(* under Spec.                                                             *)

\* C18: process_authentication_request on a token-login request has two
\* outcomes, decided by whether the token is in the mapping when it is
\* called: for a stored token it returns the stored username and password
\* and writes nothing; for any other token it returns no credentials,
\* writes exactly one message echoing the request's correlation id with
\* ErrorCode 'unauthorized access', and leaves mapping and timers alone.
C18_TwoOutcomes ==
    [][last'.op = "process_authentication_request"
       => LET data == last'.data
              token == data["Params"]["Token"]
          IN  /\ last'.raised = ""
              /\ IF Has(tokens, token)
                 THEN /\ last'.ret = Some(<<tokens[token].username,
                                            tokens[token].password>>)
                      /\ last'.written = <<>>
                 ELSE /\ last'.ret = None
                      /\ Len(last'.written) = 1
                      /\ Get(last'.written[1], "RequestId")
                            = Some(data["RequestId"])
                      /\ Get(last'.written[1], "ErrorCode")
                            = Some("unauthorized access")
                      /\ tokens' = tokens
                      /\ timeouts' = timeouts]_vars

\* C18 witness: with one token stored, a request for a token already
\* redeemed has just been refused, and the stored token and its timer are
\* still there.
C18_Witness ==
    \E t1, t2 \in IssuableTokens :
        /\ RedemptionOf(t1) /\ Refused
        /\ events[t1] = <<"created", "redeemed">>
        /\ Has(tokens, t2) /\ Handle(t2) \in timeouts

\* C19: between handler invocations a token is in the mapping if and only
\* if its expiry callback is scheduled; no expiry callback has fired for a
\* token that was not in the mapping, and one that did would change nothing.
C19_StoredIffScheduled ==
    /\ \A handle \in timeouts : Has(tokens, TokenOf(handle))
    /\ \A token \in TokenStrings :
          /\ Has(tokens, token)
                => /\ tokens[token].handle = Handle(token)
                   /\ Handle(token) \in timeouts
          /\ Count(events[token], "fired") = 0
          /\ ~Has(tokens, token) => expire_token(token) = tokens

\* C19 witness: one token is stored with its callback scheduled, another
\* was redeemed and its callback is no longer scheduled.
C19_Witness ==
    \E t1, t2 \in IssuableTokens :
        /\ events[t1] = <<"created">>
        /\ Has(tokens, t1) /\ Handle(t1) \in timeouts
        /\ events[t2] = <<"created", "redeemed">>
        /\ ~Has(tokens, t2) /\ Handle(t2) \notin timeouts

\* The calls of the token handler that act on its state or on a User.
TokenHandlerOps ==
    {"process_token_request", "process_authentication_request",
     "process_authentication_response", "expire_token"}

\* C20: no call of the token handler changes the username, password or
\* is_authenticated of any User or the _request_id of any middleware; only
\* process_request and process_response do.
C20_TokenFrame ==
    [][/\ last'.op \in TokenHandlerOps
          => user' = user /\ request_id' = request_id
       /\ (user' # user \/ request_id' # request_id)
          => last'.op \in {"process_request", "process_response"}]_vars

\* C20 witness: the success response of a token login has just been made
\* for the authenticated user-bob while a login of theirs is pending.
C20_Witness ==
    /\ last.op = "process_authentication_response" /\ last.conn = "c1"
    /\ last.ret # None
    /\ last.ret[1]["Response"]["AuthTag"] = "user-bob"
    /\ user["c1"] = User("user-bob", "hunter2", TRUE)
    /\ request_id["c1"] # None

-----------------------------------------------------------------------------
(* Expiry of tokens, checked under SpecFair.                               *)

\* The IOLoop runs every callback that stays scheduled: a timeout added by
\* add_timeout fires unless remove_timeout cancels it first.
Fairness == \A handle \in IssuableTokens : WF_vars(ExpireToken(handle))

\* The token handler on its own: the middleware holds no reference to it,
\* and its login steps leave the mapping and the timeouts as they are.
SpecFair == InitGo /\ [][Token]_vars /\ Fairness

\* C21: when the IOLoop fires every scheduled timeout that is not
\* cancelled, every token process_token_request has stored is later absent
\* from the mapping, whether or not a request ever redeems it.
C21_TokenLeaves ==
    \A token \in IssuableTokens :
        Has(tokens, token) ~> ~Has(tokens, token)

\* C21 witness: the expiry callback has just removed a token that no
\* request redeemed.
C21_Witness ==
    \E token \in IssuableTokens :
        /\ last.op = "expire_token" /\ last.data["Token"] = token
        /\ events[token] = <<"created", "expired">>
        /\ ~Has(tokens, token) /\ Handle(token) \notin timeouts

-----------------------------------------------------------------------------
(* Monotone authentication, checked under Spec.                            *)

\* C22: no step of process_request, process_response or the token handler
\* sets is_authenticated of a User back to false; it changes only from
\* false to true, and only in a process_response step of its connection.
C22_Monotone ==
    [][\A c \in Conns :
          /\ user[c].is_authenticated => user'[c].is_authenticated
          /\ user'[c].is_authenticated # user[c].is_authenticated
             => /\ last'.op = "process_response" /\ last'.conn = c
                /\ ~user[c].is_authenticated
                /\ user'[c].is_authenticated]_vars

\* C22 witness: a token is stored, and the failure response to a later
\* login has just emptied the credentials of a User who stays authenticated.
C22_Witness ==
    \E c \in Conns :
        /\ last.op = "process_response" /\ last.conn = c
        /\ ~login_succeeded(backend[c], last.data)
        /\ user[c] = User("", "", TRUE)
        /\ request_id[c] = None
        /\ \E token \in IssuableTokens : Has(tokens, token)

====
